---- MODULE Spec2Model ----
(***************************************************************************)
(* Model of python/magellan/types.py: the shape entities Point, PolyLine   *)
(* and Polygon, their user-defined-type codecs, the JSON envelope dispatch *)
(* and the lazy registerPicklers registration.                             *)
(*                                                                         *)
(* Python values are records carrying their Python class in field py.      *)
(* A raised exception is a record whose py is the exception class.         *)
(* The spec's error names map to the exceptions the code raises:           *)
(*   ValidationError = AssertionError (the assert statements),             *)
(*   InvalidArgument = TypeError (the raise in serialize),                 *)
(*   ResolutionError = ImportError / AttributeError (__import__, getattr), *)
(*   ParseError      = ValueError (json.loads).                            *)
(***************************************************************************)
EXTENDS Integers, Sequences, FiniteSets, TLC

VARIABLES
    \* one codec call: the operation and argument, its result, what it printed
    call, ret, stdout,
    \* registerPicklers / jsonValue: per thread, the statement reached (pc),
    \* the class of the instance the call is made on (self), the method
    \* entered (entry), the local wmethod and the call's result (jret)
    pc, self, entry, wmethod, jret,
    \* the __initialized__ entry of each class's own attribute dictionary
    initialized,
    \* history: calls started, entries into the if-body, calls that raised,
    \* calls that returned, and the call numbers at which the underlying
    \* registration (wmethod.invoke) was performed
    calls, callNo, attempts, failures, returns, registered,
    \* list objects by reference, the shape instances constructed, and for
    \* each instance how it was constructed and whether a caller mutated a
    \* list through it
    heap, objs, origin, touched

codecVars == <<call, ret, stdout>>

regVars == <<pc, self, entry, wmethod, jret, initialized,
             calls, callNo, attempts, failures, returns, registered>>

heapVars == <<heap, objs, origin, touched>>

vars == <<codecVars, regVars, heapVars>>

(* ------------------------------ bounds --------------------------------- *)
\* longest points list of a PolyLine / Polygon datum or JSON payload
MaxPts == 2
\* longest indices list
MaxIdx == 2
\* calls of jsonValue / registerPicklers in one run
MaxCalls == 3
\* threads of the host process that call jsonValue concurrently
NThreads == 2
\* shape instances constructed in one run
MaxObjs == 3
\* longest list a caller grows by appending
MaxAppend == 1

(* --------------------------- Python values ----------------------------- *)
\* float64 values, written as their repr; "nan" is IEEE not-a-number
Floats == {"0.0", "1.5", "nan"}

\* float.__eq__: IEEE comparison, NaN is unequal to everything, itself included
float_eq(a, b) == a # "nan" /\ b # "nan" /\ a = b

Exceptions == {"AssertionError", "TypeError", "KeyError", "ValueError",
               "ImportError", "AttributeError", "Py4JJavaError"}

Raise(exc) == [py |-> exc, raised |-> TRUE]

Raised(v) == "raised" \in DOMAIN v

\* a tuple / Row as it arrives from the engine
Row(items) == [py |-> "tuple", items |-> items]

Str(s) == [py |-> "str", s |-> s]

\* isinstance(v, cls): no class of the module has a subclass other than
\* Shape, which is never instantiated
isinstance(v, cls) == v.py = cls

\* len(v) is defined for tuples only among the values used here; the
\* shape classes define no __len__
HasLen(v) == v.py = "tuple"

(* ------------------------------ entities ------------------------------- *)
Point(x, y) == [py |-> "Point", shape_type |-> 1, x |-> x, y |-> y]

Polygon(indices, points) ==
    [py |-> "Polygon", shape_type |-> 5, indices |-> indices, points |-> points]

PolyLine(indices, points) ==
    [py |-> "PolyLine", shape_type |-> 3, indices |-> indices, points |-> points]

\* Point.__eq__
Point_eq(this, other) ==
    isinstance(other, "Point") /\ float_eq(this.x, other.x) /\ float_eq(this.y, other.y)

(* ------------------------------- codecs -------------------------------- *)
PointUDT_serialize(obj) ==
    IF isinstance(obj, "Point") THEN obj ELSE Raise("TypeError")

\* fault variant of PointUDT.deserialize: the two coordinates exchanged
PointUDT_deserialize_swapped(datum) ==
    IF isinstance(datum, "Point") THEN datum
    ELSE IF ~HasLen(datum) THEN Raise("TypeError")
    ELSE IF Len(datum.items) # 3 THEN Raise("AssertionError")
    ELSE IF datum.items[1] # 1 THEN Raise("AssertionError")
    ELSE Point(datum.items[3], datum.items[2])

PointUDT_deserialize(datum) ==
    IF isinstance(datum, "Point") THEN datum
    ELSE IF ~HasLen(datum) THEN Raise("TypeError")
    ELSE IF Len(datum.items) # 3 THEN Raise("AssertionError")
    ELSE IF datum.items[1] # 1 THEN Raise("AssertionError")
    ELSE Point(datum.items[2], datum.items[3])

\* [self.pointUDT.deserialize(point) for point in pts]: the list of decoded
\* points, or the exception of the first element that fails to decode
DecodePoints(pts) ==
    LET dec == [i \in 1..Len(pts) |-> PointUDT_deserialize(pts[i])]
        bad == {i \in 1..Len(pts) : Raised(dec[i])}
    IN
    IF bad = {} THEN [py |-> "list", items |-> dec]
    ELSE dec[CHOOSE i \in bad : \A j \in bad : i <= j]

\* fault variant of PolygonUDT.serialize: isinstance tested against Shape
PolygonUDT_serialize_anyshape(obj) ==
    IF obj.py \in {"Point", "PolyLine", "Polygon"} THEN obj ELSE Raise("TypeError")

PolygonUDT_serialize(obj) ==
    IF isinstance(obj, "Polygon") THEN obj ELSE Raise("TypeError")

\* fault variant of PolygonUDT.deserialize: datum[2] stored without decoding
PolygonUDT_deserialize_raw(datum) ==
    IF isinstance(datum, "Polygon") THEN datum
    ELSE IF ~HasLen(datum) THEN Raise("TypeError")
    ELSE IF Len(datum.items) # 3 THEN Raise("AssertionError")
    ELSE IF datum.items[1] # 5 THEN Raise("AssertionError")
    ELSE Polygon(datum.items[2], datum.items[3])

PolygonUDT_deserialize(datum) ==
    IF isinstance(datum, "Polygon") THEN datum
    ELSE IF ~HasLen(datum) THEN Raise("TypeError")
    ELSE IF Len(datum.items) # 3 THEN Raise("AssertionError")
    ELSE IF datum.items[1] # 5 THEN Raise("AssertionError")
    ELSE LET pts == DecodePoints(datum.items[3])
         IN  IF Raised(pts) THEN pts ELSE Polygon(datum.items[2], pts.items)

PolyLineUDT_serialize(obj) ==
    IF isinstance(obj, "PolyLine") THEN obj ELSE Raise("TypeError")

\* fault variant of PolyLineUDT.deserialize: the Polygon tag left in place
PolyLineUDT_deserialize_tag5(datum) ==
    IF isinstance(datum, "PolyLine") THEN datum
    ELSE IF ~HasLen(datum) THEN Raise("TypeError")
    ELSE IF Len(datum.items) # 3 THEN Raise("AssertionError")
    ELSE IF datum.items[1] # 5 THEN Raise("AssertionError")
    ELSE LET pts == DecodePoints(datum.items[3])
         IN  IF Raised(pts) THEN pts ELSE PolyLine(datum.items[2], pts.items)

PolyLineUDT_deserialize(datum) ==
    IF isinstance(datum, "PolyLine") THEN datum
    ELSE IF ~HasLen(datum) THEN Raise("TypeError")
    ELSE IF Len(datum.items) # 3 THEN Raise("AssertionError")
    ELSE IF datum.items[1] # 3 THEN Raise("AssertionError")
    ELSE LET pts == DecodePoints(datum.items[3])
         IN  IF Raised(pts) THEN pts ELSE PolyLine(datum.items[2], pts.items)

\* the `print datum` statement of PolyLineUDT.deserialize: it runs after the
\* length assertion and before the tag assertion
PolyLineUDT_deserialize_prints(datum) ==
    IF ~isinstance(datum, "PolyLine") /\ HasLen(datum) /\ Len(datum.items) = 3
    THEN <<datum>> ELSE <<>>

(* ------------------------------ fromJson ------------------------------- *)
\* A parsed JSON object is a function from its keys to its values;
\* json[k] raises KeyError when k is absent.
PointUDT_fromJson(json) ==
    IF "x" \notin DOMAIN json THEN Raise("KeyError")
    ELSE IF "y" \notin DOMAIN json THEN Raise("KeyError")
    ELSE Point(json["x"], json["y"])

Point_fromJson(json) ==
    IF "x" \notin DOMAIN json THEN Raise("KeyError")
    ELSE IF "y" \notin DOMAIN json THEN Raise("KeyError")
    ELSE Point(json["x"], json["y"])

\* [PointUDT.fromJson(point) for point in pts]
PointsFromJson(pts) ==
    LET dec == [i \in 1..Len(pts) |-> PointUDT_fromJson(pts[i])]
        bad == {i \in 1..Len(pts) : Raised(dec[i])}
    IN
    IF bad = {} THEN [py |-> "list", items |-> dec]
    ELSE dec[CHOOSE i \in bad : \A j \in bad : i <= j]

PolygonUDT_fromJson(json) ==
    IF "indices" \notin DOMAIN json THEN Raise("KeyError")
    ELSE IF "points" \notin DOMAIN json THEN Raise("KeyError")
    ELSE LET points == PointsFromJson(json["points"])
         IN  IF Raised(points) THEN points ELSE Polygon(json["indices"], points.items)

Polygon_fromJson(json) ==
    IF "indices" \notin DOMAIN json THEN Raise("KeyError")
    ELSE IF "points" \notin DOMAIN json THEN Raise("KeyError")
    ELSE LET points == PointsFromJson(json["points"])
         IN  IF Raised(points) THEN points ELSE Polygon(json["indices"], points.items)

PolyLineUDT_fromJson(json) ==
    IF "indices" \notin DOMAIN json THEN Raise("KeyError")
    ELSE IF "points" \notin DOMAIN json THEN Raise("KeyError")
    ELSE LET points == PointsFromJson(json["points"])
         IN  IF Raised(points) THEN points ELSE PolyLine(json["indices"], points.items)

PolyLine_fromJson(json) ==
    IF "indices" \notin DOMAIN json THEN Raise("KeyError")
    ELSE IF "points" \notin DOMAIN json THEN Raise("KeyError")
    ELSE LET points == PointsFromJson(json["points"])
         IN  IF Raised(points) THEN points ELSE PolyLine(json["indices"], points.items)

(* -------------------------- envelope dispatch -------------------------- *)
Max(S) == CHOOSE m \in S : \A n \in S : n <= m

Min(S) == CHOOSE m \in S : \A n \in S : m <= n

\* str.find(ch): 0-based offset of the first occurrence, -1 when absent
find(s, ch) ==
    LET hits == {i \in 1..Len(s) : SubSeq(s, i, i) = ch}
    IN  IF hits = {} THEN -1 ELSE Min(hits) - 1

\* str.rfind(ch): 0-based offset of the last occurrence, -1 when absent
rfind(s, ch) ==
    LET hits == {i \in 1..Len(s) : SubSeq(s, i, i) = ch}
    IN  IF hits = {} THEN -1 ELSE Max(hits) - 1

\* s[:k], a negative k counting from the end
SliceTo(s, k) ==
    LET n == Len(s)
        e == IF k < 0 THEN Max({n + k, 0}) ELSE Min({k, n})
    IN  SubSeq(s, 1, e)

\* s[k:] for k >= 0
SliceFrom(s, k) == SubSeq(s, Min({k, Len(s)}) + 1, Len(s))

\* json.loads: a JSON text is represented by the object it denotes, or by
\* its raw characters when it is not well-formed JSON
json_loads(text) ==
    IF "json" \in DOMAIN text THEN text.json ELSE Raise("ValueError")

\* the names bound in module magellan.types that the model distinguishes
ModuleNames == {"Shape", "PointUDT", "Point", "PolygonUDT", "Polygon",
                "PolyLineUDT", "PolyLine", "json", "sys"}

\* names of magellan.types that have a fromJson attribute
HasFromJson == {"PointUDT", "Point", "PolygonUDT", "Polygon", "PolyLineUDT", "PolyLine"}

\* __import__(module, globals(), locals(), [shapeClass]) followed by
\* getattr(m, shapeClass): the resolved name, or the exception raised
Resolve(module, shapeClass) ==
    IF module = "" THEN Raise("ValueError")
    ELSE IF module # "magellan.types" THEN Raise("ImportError")
    ELSE IF shapeClass \notin ModuleNames THEN Raise("AttributeError")
    ELSE [py |-> "type", name |-> shapeClass]

\* UDT.fromJson(j) on the resolved attribute
Dispatch(UDT, j) ==
    IF UDT.name \notin HasFromJson THEN Raise("AttributeError")
    ELSE CASE UDT.name = "PointUDT"    -> PointUDT_fromJson(j)
           [] UDT.name = "Point"       -> Point_fromJson(j)
           [] UDT.name = "PolygonUDT"  -> PolygonUDT_fromJson(j)
           [] UDT.name = "Polygon"     -> Polygon_fromJson(j)
           [] UDT.name = "PolyLineUDT" -> PolyLineUDT_fromJson(j)
           [] UDT.name = "PolyLine"    -> PolyLine_fromJson(j)

\* fault variant of line 363: find in place of rfind
SplitFirst(shapeType) == find(shapeType, ".")

\* the split position computed on line 363
Split(shapeType) == rfind(shapeType, ".")

inbound_shape_converter(json_string) ==
    LET j == json_loads(json_string)
    IN
    IF Raised(j) THEN j
    ELSE IF "pyClass" \notin DOMAIN j THEN Raise("KeyError")
    ELSE LET shapeType  == j["pyClass"]
             split      == Split(shapeType)
             module     == SliceTo(shapeType, split)
             shapeClass == SliceFrom(shapeType, split + 1)
             UDT        == Resolve(module, shapeClass)
         IN  IF Raised(UDT) THEN UDT ELSE Dispatch(UDT, j)

(* ------------------------------ inputs --------------------------------- *)
SeqsUpTo(S, n) == UNION {[1..k -> S] : k \in 0..n}

Points == {Point(x, y) : x \in Floats, y \in Floats}

\* rows whose cells are floats: well-formed point triples, triples with a
\* foreign tag, and rows of the wrong length
PointRows ==
    {Row(<<t, x, y>>) : t \in {1, 2}, x \in Floats, y \in Floats}
    \cup {Row(<<t, x>>) : t \in {1, 2}, x \in Floats}
    \cup {Row(<<1, x, y, y>>) : x \in Floats, y \in {"0.0"}}
    \cup {Row(<< >>)}

\* what the points cell of a PolyLine / Polygon row may hold: native Points
\* and rows, some of them not decodable
PtData ==
    {Point("0.0", "1.5"), Point("nan", "0.0"),
     Row(<<1, "0.0", "1.5">>), Row(<<1, "1.5", "nan">>),
     Row(<<2, "0.0", "0.0">>), Row(<<1, "0.0">>)}

IndexLists == SeqsUpTo({0, 1}, MaxIdx)

\* rows whose cells are lists: tags 3 and 5 and the foreign tag 4
PolyRows ==
    {Row(<<t, ix, ps>>) : t \in {3, 4, 5}, ix \in IndexLists, ps \in SeqsUpTo(PtData, MaxPts)}
    \cup {Row(<<t, ix>>) : t \in {3, 5}, ix \in IndexLists}
    \cup {Row(<<t, ix, << >>, << >> >>) : t \in {3, 5}, ix \in IndexLists}

SamplePoints == {Point("0.0", "1.5"), Point("nan", "0.0")}

Polygons == {Polygon(ix, ps) : ix \in IndexLists, ps \in SeqsUpTo(SamplePoints, MaxPts)}

PolyLines == {PolyLine(ix, ps) : ix \in IndexLists, ps \in SeqsUpTo(SamplePoints, MaxPts)}

Natives == Points \cup Polygons \cup PolyLines

Datums == PointRows \cup PolyRows \cup Natives

Values == Natives \cup {Str("not a point")} \cup {Row(<<1, "0.0", "1.5">>)}

QualifiedNames ==
    {"magellan.types.PointUDT", "magellan.types.PolyLineUDT", "magellan.types.PolygonUDT",
     "magellan.types.Point", "magellan.types.Polygon", "magellan.types.PolyLine",
     "magellan.types.CircleUDT", "magellan.types.Shape", "magellan.types.json",
     "nowhere.PointUDT", "PolygonUDT", ".PointUDT"}

JsonPoints == {[x |-> "0.0", y |-> "1.5"], [x |-> "3.5", y |-> "-2.0"], [x |-> "0.0"]}

\* envelopes: a pyClass with a point payload, with a line / polygon payload,
\* with a payload missing a key, and an object without pyClass
Envelopes ==
    {[pyClass |-> q, x |-> p.x, y |-> p.y] : q \in QualifiedNames, p \in {[x |-> "3.5", y |-> "-2.0"], [x |-> "nan", y |-> "0.0"]}}
    \cup {[pyClass |-> q, indices |-> ix, points |-> ps] :
             q \in QualifiedNames, ix \in IndexLists, ps \in SeqsUpTo(JsonPoints, MaxPts)}
    \cup {[pyClass |-> q, indices |-> ix] : q \in QualifiedNames, ix \in {<<0>>}}
    \cup {[x |-> "0.0", y |-> "1.5"]}

JsonTexts == {[py |-> "str", json |-> e] : e \in Envelopes} \cup {Str("{not json")}

Pending == [py |-> "pending"]

(* ------------------------ instances and their lists -------------------- *)
\* The default arguments indices = [] and points = [] are evaluated once,
\* when __init__ is defined: one list object per parameter and per class.
DefaultRefs ==
    [Polygon |-> [indices |-> 1, points |-> 2],
     PolyLine |-> [indices |-> 3, points |-> 4]]

HeapInit ==
    /\ heap = << << >>, << >>, << >>, << >> >>
    /\ objs = << >>
    /\ origin = << >>
    /\ touched = {}

(* --------------------- jsonValue and registerPicklers ------------------ *)
Threads == 1..NThreads

ShapeClasses == {"Point", "PolyLine", "Polygon"}

None == [py |-> "NoneType"]

\* attribute lookup cls.__initialized__ along the method resolution order:
\* the class's own entry when it has one, else the entry Shape defines
ClassAttr(cls) ==
    IF initialized[cls] # << >> THEN initialized[cls][1] ELSE initialized["Shape"][1]

\* fault variant of the guard: the flag looked up on the class of self
FlagRead_ofself(selfcls) == ClassAttr(selfcls)

\* the flag the guard on line 34 reads, whatever the class of self
FlagRead(selfcls) == ClassAttr("Point")

PointUDT_module == "magellan.types"

PointUDT_scalaUDT == "magellan.PointUDT"

PolygonUDT_module == "magellan.types"

PolygonUDT_scalaUDT == "magellan.PolygonUDT"

PolyLineUDT_module == "magellan.types"

PolyLineUDT_scalaUDT == "magellan.PolyLineUDT"

Point_jsonValue ==
    [type |-> "udt", pyClass |-> "magellan.types.PointUDT",
     class |-> "magellan.PointUDT", sqlType |-> "magellan.Point"]

\* fault variant of Polygon.jsonValue: the pyClass of Point left in place
Polygon_jsonValue_pointcodec ==
    [type |-> "udt", pyClass |-> "magellan.types.PointUDT",
     class |-> "magellan.Polygon", sqlType |-> "magellan.Polygon"]

Polygon_jsonValue ==
    [type |-> "udt", pyClass |-> "magellan.types.PolygonUDT",
     class |-> "magellan.Polygon", sqlType |-> "magellan.Polygon"]

PolyLine_jsonValue ==
    [type |-> "udt", pyClass |-> "magellan.types.PolyLineUDT",
     class |-> "magellan.PolyLine", sqlType |-> "magellan.PolyLine"]

jsonValue(cls) ==
    CASE cls = "Point"    -> Point_jsonValue
      [] cls = "Polygon"  -> Polygon_jsonValue
      [] cls = "PolyLine" -> PolyLine_jsonValue

NoCall == [op |-> "none", arg |-> None]

RegInit ==
    /\ pc = [t \in Threads |-> "idle"]
    /\ self = [t \in Threads |-> "Point"]
    /\ entry = [t \in Threads |-> "jsonValue"]
    /\ wmethod = [t \in Threads |-> "None"]
    /\ jret = [t \in Threads |-> Pending]
    /\ initialized = [c \in {"Shape"} \cup ShapeClasses |->
                         IF c = "Shape" THEN <<FALSE>> ELSE << >>]
    /\ calls = 0
    /\ callNo = [t \in Threads |-> 0]
    /\ attempts = 0
    /\ failures = 0
    /\ returns = 0
    /\ registered = << >>

\* a call raises exc: it propagates out of registerPicklers and jsonValue
Fail(t, exc) ==
    /\ pc' = [pc EXCEPT ![t] = "idle"]
    /\ jret' = [jret EXCEPT ![t] = Raise(exc)]
    /\ failures' = failures + 1

\* a caller invokes jsonValue() or registerPicklers() on an instance of cls
Enter(t, cls, method) ==
    /\ pc[t] = "idle"
    /\ calls < MaxCalls
    /\ calls' = calls + 1
    /\ callNo' = [callNo EXCEPT ![t] = calls + 1]
    /\ pc' = [pc EXCEPT ![t] = "guard"]
    /\ self' = [self EXCEPT ![t] = cls]
    /\ entry' = [entry EXCEPT ![t] = method]
    /\ jret' = [jret EXCEPT ![t] = Pending]
    /\ wmethod' = [wmethod EXCEPT ![t] = "None"]
    /\ UNCHANGED <<initialized, attempts, failures, returns, registered, codecVars, heapVars>>

\* line 34: if Point.__initialized__ == False
Guard(t) ==
    /\ pc[t] = "guard"
    /\ IF FlagRead(self[t]) = FALSE
       THEN /\ pc' = [pc EXCEPT ![t] = "lookup"]
            /\ attempts' = attempts + 1
       ELSE /\ pc' = [pc EXCEPT ![t] = "return"]
            /\ UNCHANGED attempts
    /\ UNCHANGED <<self, entry, wmethod, jret, initialized, calls, callNo, failures,
                   returns, registered, codecVars, heapVars>>

\* lines 35-41: the active context, the class loader, loadClass and the scan
\* of getMethods(); the host decides whether each is there
LookupMethod(t) ==
    /\ pc[t] = "lookup"
    /\ \E env \in {"ok", "no_context", "no_class", "no_method"} :
          CASE env = "ok" ->
                 /\ wmethod' = [wmethod EXCEPT ![t] = "registerPicklers"]
                 /\ pc' = [pc EXCEPT ![t] = "invoke"]
                 /\ UNCHANGED <<jret, failures>>
            [] env = "no_method" ->
                 /\ wmethod' = [wmethod EXCEPT ![t] = "None"]
                 /\ pc' = [pc EXCEPT ![t] = "invoke"]
                 /\ UNCHANGED <<jret, failures>>
            [] env = "no_context" ->
                 /\ Fail(t, "AttributeError")
                 /\ UNCHANGED wmethod
            [] env = "no_class" ->
                 /\ Fail(t, "Py4JJavaError")
                 /\ UNCHANGED wmethod
    /\ UNCHANGED <<self, entry, initialized, calls, callNo, attempts, returns, registered,
                   codecVars, heapVars>>

\* fault variant of lines 45-46: the flag written before the invoke
Invoke_flagfirst(t) ==
    /\ pc[t] = "invoke"
    /\ initialized' = [initialized EXCEPT !["Point"] = <<TRUE>>]
    /\ \/ /\ wmethod[t] = "None"
          /\ Fail(t, "AttributeError")
          /\ UNCHANGED registered
       \/ /\ wmethod[t] # "None"
          /\ Fail(t, "Py4JJavaError")
          /\ UNCHANGED registered
       \/ /\ wmethod[t] # "None"
          /\ registered' = Append(registered, callNo[t])
          /\ pc' = [pc EXCEPT ![t] = "setflag"]
          /\ UNCHANGED <<jret, failures>>
    /\ UNCHANGED <<self, entry, wmethod, calls, callNo, attempts, returns,
                   codecVars, heapVars>>

\* lines 43-45: wmethod.invoke(None, java_args); it raises when wmethod is
\* None or when the host's registerPicklers throws
Invoke(t) ==
    /\ pc[t] = "invoke"
    /\ \/ /\ wmethod[t] = "None"
          /\ Fail(t, "AttributeError")
          /\ UNCHANGED registered
       \/ /\ wmethod[t] # "None"
          /\ Fail(t, "Py4JJavaError")
          /\ UNCHANGED registered
       \/ /\ wmethod[t] # "None"
          /\ registered' = Append(registered, callNo[t])
          /\ pc' = [pc EXCEPT ![t] = "setflag"]
          /\ UNCHANGED <<jret, failures>>
    /\ UNCHANGED <<self, entry, wmethod, initialized, calls, callNo, attempts, returns,
                   codecVars, heapVars>>

\* line 46: Point.__initialized__ = True
SetFlag(t) ==
    /\ pc[t] = "setflag"
    /\ initialized' = [initialized EXCEPT !["Point"] = <<TRUE>>]
    /\ pc' = [pc EXCEPT ![t] = "return"]
    /\ UNCHANGED <<self, entry, wmethod, jret, calls, callNo, attempts, failures,
                   returns, registered, codecVars, heapVars>>

\* registerPicklers returns None; jsonValue goes on to return its mapping
Return(t) ==
    /\ pc[t] = "return"
    /\ pc' = [pc EXCEPT ![t] = "idle"]
    /\ jret' = [jret EXCEPT ![t] =
                  IF entry[t] = "jsonValue"
                  THEN [py |-> "dict", d |-> jsonValue(self[t])]
                  ELSE None]
    /\ returns' = returns + 1
    /\ UNCHANGED <<self, entry, wmethod, initialized, calls, callNo, attempts, failures,
                   registered, codecVars, heapVars>>

Step(t) ==
    \/ \E cls \in ShapeClasses : \E m \in {"jsonValue", "registerPicklers"} : Enter(t, cls, m)
    \/ Guard(t)
    \/ LookupMethod(t)
    \/ Invoke(t)
    \/ SetFlag(t)
    \/ Return(t)

InitReg ==
    /\ call = NoCall
    /\ ret = Pending
    /\ stdout = << >>
    /\ RegInit
    /\ HeapInit

\* a single-threaded process: every call runs to its end before the next
NextReg == Step(1)

SpecReg == InitReg /\ [][NextReg]_vars

\* a process whose threads interleave between the statements
NextThreads == \E t \in Threads : Step(t)

SpecThreads == InitReg /\ [][NextThreads]_vars

\* Polygon() / PolyLine(): __init__ binds the fields to the default lists
Polygon_default == Polygon(DefaultRefs.Polygon.indices, DefaultRefs.Polygon.points)

PolyLine_default == PolyLine(DefaultRefs.PolyLine.indices, DefaultRefs.PolyLine.points)

\* PolygonUDT.sqlType() / PolyLineUDT.sqlType(): return Polygon() / PolyLine()
PolygonUDT_sqlType == Polygon_default

PolyLineUDT_sqlType == PolyLine_default

\* v = Polygon() or v = PolyLine()
ConstructDefault(cls) ==
    /\ Len(objs) < MaxObjs
    /\ objs' = Append(objs, IF cls = "Polygon" THEN Polygon_default ELSE PolyLine_default)
    /\ origin' = Append(origin, "default")
    /\ UNCHANGED <<heap, touched, codecVars, regVars>>

\* v = PolygonUDT.sqlType() or v = PolyLineUDT.sqlType()
SqlType(udt) ==
    /\ Len(objs) < MaxObjs
    /\ objs' = Append(objs, IF udt = "PolygonUDT" THEN PolygonUDT_sqlType ELSE PolyLineUDT_sqlType)
    /\ origin' = Append(origin, "sqlType")
    /\ UNCHANGED <<heap, touched, codecVars, regVars>>

\* v = Polygon(ix, ps) or v = PolyLine(ix, ps) on two lists the caller just built
ConstructWith(cls, ix, ps) ==
    /\ Len(objs) < MaxObjs
    /\ heap' = heap \o <<ix, ps>>
    /\ objs' = Append(objs, IF cls = "Polygon" THEN Polygon(Len(heap) + 1, Len(heap) + 2)
                                               ELSE PolyLine(Len(heap) + 1, Len(heap) + 2))
    /\ origin' = Append(origin, "args")
    /\ UNCHANGED <<touched, codecVars, regVars>>

\* objs[i].indices.append(v)
AppendIndices(i, v) ==
    /\ i \in DOMAIN objs
    /\ Len(heap[objs[i].indices]) < MaxAppend
    /\ heap' = [heap EXCEPT ![objs[i].indices] = Append(@, v)]
    /\ touched' = touched \cup {i}
    /\ UNCHANGED <<objs, origin, codecVars, regVars>>

\* objs[i].points.append(p)
AppendPoints(i, p) ==
    /\ i \in DOMAIN objs
    /\ Len(heap[objs[i].points]) < MaxAppend
    /\ heap' = [heap EXCEPT ![objs[i].points] = Append(@, p)]
    /\ touched' = touched \cup {i}
    /\ UNCHANGED <<objs, origin, codecVars, regVars>>

InitHeap ==
    /\ call = NoCall
    /\ ret = Pending
    /\ stdout = << >>
    /\ RegInit
    /\ HeapInit

NextHeap ==
    \/ \E cls \in {"Polygon", "PolyLine"} : ConstructDefault(cls)
    \/ \E udt \in {"PolygonUDT", "PolyLineUDT"} : SqlType(udt)
    \/ \E cls \in {"Polygon", "PolyLine"} :
          \/ ConstructWith(cls, << >>, << >>)
          \/ ConstructWith(cls, <<0>>, <<Point("0.0", "1.5")>>)
    \/ \E i \in 1..MaxObjs : AppendIndices(i, 0)
    \/ \E i \in 1..MaxObjs : AppendPoints(i, Point("1.5", "0.0"))

SpecHeap == InitHeap /\ [][NextHeap]_vars

(* ------------------- one call of a codec operation --------------------- *)
\* A run is one call: Init draws the operation and its argument, the
\* operation's action applies it and records what it returned or raised.
Init ==
    /\ \/ \E op \in {"PointUDT.deserialize", "PolygonUDT.deserialize", "PolyLineUDT.deserialize"} :
            \E d \in Datums : call = [op |-> op, arg |-> d]
       \/ \E op \in {"PointUDT.serialize", "PolygonUDT.serialize", "PolyLineUDT.serialize"} :
            \E v \in Values : call = [op |-> op, arg |-> v]
       \/ \E t \in JsonTexts : call = [op |-> "_inbound_shape_converter", arg |-> t]
    /\ ret = Pending
    /\ stdout = << >>
    /\ RegInit
    /\ HeapInit

CallPointUDT_deserialize ==
    /\ call.op = "PointUDT.deserialize"
    /\ ret = Pending
    /\ ret' = PointUDT_deserialize(call.arg)
    /\ stdout' = stdout \o << >>
    /\ UNCHANGED <<call, regVars, heapVars>>

CallPolygonUDT_deserialize ==
    /\ call.op = "PolygonUDT.deserialize"
    /\ ret = Pending
    /\ ret' = PolygonUDT_deserialize(call.arg)
    /\ stdout' = stdout \o << >>
    /\ UNCHANGED <<call, regVars, heapVars>>

CallPolyLineUDT_deserialize ==
    /\ call.op = "PolyLineUDT.deserialize"
    /\ ret = Pending
    /\ ret' = PolyLineUDT_deserialize(call.arg)
    /\ stdout' = stdout \o PolyLineUDT_deserialize_prints(call.arg)
    /\ UNCHANGED <<call, regVars, heapVars>>

CallPointUDT_serialize ==
    /\ call.op = "PointUDT.serialize"
    /\ ret = Pending
    /\ ret' = PointUDT_serialize(call.arg)
    /\ stdout' = stdout \o << >>
    /\ UNCHANGED <<call, regVars, heapVars>>

CallPolygonUDT_serialize ==
    /\ call.op = "PolygonUDT.serialize"
    /\ ret = Pending
    /\ ret' = PolygonUDT_serialize(call.arg)
    /\ stdout' = stdout \o << >>
    /\ UNCHANGED <<call, regVars, heapVars>>

CallPolyLineUDT_serialize ==
    /\ call.op = "PolyLineUDT.serialize"
    /\ ret = Pending
    /\ ret' = PolyLineUDT_serialize(call.arg)
    /\ stdout' = stdout \o << >>
    /\ UNCHANGED <<call, regVars, heapVars>>

Call_inbound_shape_converter ==
    /\ call.op = "_inbound_shape_converter"
    /\ ret = Pending
    /\ ret' = inbound_shape_converter(call.arg)
    /\ stdout' = stdout \o << >>
    /\ UNCHANGED <<call, regVars, heapVars>>

Next ==
    \/ CallPointUDT_deserialize
    \/ CallPolygonUDT_deserialize
    \/ CallPolyLineUDT_deserialize
    \/ CallPointUDT_serialize
    \/ CallPolygonUDT_serialize
    \/ CallPolyLineUDT_serialize
    \/ Call_inbound_shape_converter

Spec == Init /\ [][Next]_vars

Returned == ret # Pending

(* ------------------------ properties of the codecs --------------------- *)
IsTriple(d, tag) == d.py = "tuple" /\ Len(d.items) = 3 /\ d.items[1] = tag

PointTripleDecoded ==
    call.op = "PointUDT.deserialize" /\ Returned /\ IsTriple(call.arg, 1)

\* C1 as stated: for every Point(x, y), PointUDT.deserialize of the triple
\* (1, x, y) returns a Point that Point.__eq__ finds equal to Point(x, y),
\* with x and y unchanged.
C1_RoundTripEqual ==
    PointTripleDecoded =>
        /\ ret.py = "Point"
        /\ ret.x = call.arg.items[2]
        /\ ret.y = call.arg.items[3]
        /\ Point_eq(ret, Point(call.arg.items[2], call.arg.items[3]))

\* C1 amended: PointUDT.deserialize of (1, x, y) returns a Point whose x and
\* y are the triple's x and y unchanged; Point.__eq__ finds it equal to
\* Point(x, y) exactly when neither coordinate is NaN.
C1_RoundTripFields ==
    PointTripleDecoded =>
        /\ ret.py = "Point"
        /\ ret.shape_type = 1
        /\ ret.x = call.arg.items[2]
        /\ ret.y = call.arg.items[3]
        /\ Point_eq(ret, Point(call.arg.items[2], call.arg.items[3]))
             <=> (call.arg.items[2] # "nan" /\ call.arg.items[3] # "nan")

C1_Witness ==
    /\ PointTripleDecoded
    /\ call.arg.items[2] # call.arg.items[3]
    /\ Point_eq(ret, Point(call.arg.items[2], call.arg.items[3]))

\* a points cell element that the Point codec accepts
ValidPt(p) == p.py = "Point" \/ IsTriple(p, 1)

\* the Point a valid points cell element stands for
ExpectedPt(p) == IF p.py = "Point" THEN p ELSE Point(p.items[2], p.items[3])

PolyTripleDecoded(op, tag) ==
    /\ call.op = op
    /\ Returned
    /\ IsTriple(call.arg, tag)
    /\ Len(call.arg.items[3]) >= 1
    /\ \A i \in 1..Len(call.arg.items[3]) : ValidPt(call.arg.items[3][i])

PolyDecodedAs(cls, tag) ==
    /\ ret.py = cls
    /\ ret.shape_type = tag
    /\ ret.indices = call.arg.items[2]
    /\ Len(ret.points) = Len(call.arg.items[3])
    /\ \A i \in 1..Len(call.arg.items[3]) :
          /\ ret.points[i] = ExpectedPt(call.arg.items[3][i])
          /\ ret.points[i] = PointUDT_deserialize(call.arg.items[3][i])

\* C2: PolyLineUDT / PolygonUDT.deserialize of (tag, indices, pts) with
\* non-empty pts, each element a raw (1, x, y) triple or a native Point,
\* returns an entity of that variant with the input indices, as many points
\* as pts, and points[i] the Point codec's decoding of pts[i].
C2_PolyDecode ==
    /\ PolyTripleDecoded("PolyLineUDT.deserialize", 3) => PolyDecodedAs("PolyLine", 3)
    /\ PolyTripleDecoded("PolygonUDT.deserialize", 5) => PolyDecodedAs("Polygon", 5)

\* a polygon triple mixing a raw triple and a native Point was decoded
C2_Witness ==
    /\ PolyTripleDecoded("PolygonUDT.deserialize", 5)
    /\ Len(call.arg.items[3]) = 2
    /\ call.arg.items[3][1].py = "tuple"
    /\ call.arg.items[3][2].py = "Point"
    /\ call.arg.items[2] # << >>
    /\ ret.py = "Polygon"

\* the codec op was given a row that is not a triple carrying its tag
BadRowGiven(op, tag) ==
    /\ call.op = op
    /\ Returned
    /\ call.arg.py = "tuple"
    /\ (Len(call.arg.items) # 3 \/ call.arg.items[1] # tag)

SerializeDone(op) == call.op = op /\ Returned

SerializeContract(op, cls) ==
    SerializeDone(op) =>
        IF call.arg.py = cls THEN ret = call.arg ELSE ret = Raise("TypeError")

\* C4: for each codec, serialize returns its argument when the argument is
\* the codec's own native entity and raises TypeError (InvalidArgument) for
\* every other value, native entities of the other variants included.
C4_SerializeContract ==
    /\ SerializeContract("PointUDT.serialize", "Point")
    /\ SerializeContract("PolyLineUDT.serialize", "PolyLine")
    /\ SerializeContract("PolygonUDT.serialize", "Polygon")

\* a PolyLine was refused by the Polygon codec
C4_Witness ==
    /\ SerializeDone("PolygonUDT.serialize")
    /\ call.arg.py = "PolyLine"
    /\ ret = Raise("TypeError")

\* the envelope of a converted text, when the text is well-formed JSON with
\* a pyClass key
Converted(q) ==
    /\ call.op = "_inbound_shape_converter"
    /\ Returned
    /\ "json" \in DOMAIN call.arg
    /\ "pyClass" \in DOMAIN call.arg.json
    /\ call.arg.json.pyClass = q

ValidPointPayload(j) == {"x", "y"} \subseteq DOMAIN j

ValidPolyPayload(j) ==
    /\ {"indices", "points"} \subseteq DOMAIN j
    /\ \A i \in 1..Len(j.points) : ValidPointPayload(j.points[i])

PolyConverted(cls, tag) ==
    /\ ret.py = cls
    /\ ret.shape_type = tag
    /\ ret.indices = call.arg.json.indices
    /\ Len(ret.points) = Len(call.arg.json.points)

\* qualified names whose module or class does not exist
Unresolvable == {"magellan.types.CircleUDT", "nowhere.PointUDT", "PolygonUDT", ".PointUDT"}

\* what a failed __import__ / getattr raises; ValueError is the empty module name
ResolutionErrors == {"ImportError", "AttributeError", "ValueError"}

\* C8: _inbound_shape_converter on an envelope whose pyClass is the one
\* jsonValue reports for variant V and whose payload is valid for V returns an
\* entity of variant V with the envelope's indices and as many points as the
\* envelope has (x, y for Point); an unresolvable class name raises a
\* resolution error and no entity is returned.
C8_Dispatch ==
    /\ (Converted("magellan.types.PointUDT") /\ ValidPointPayload(call.arg.json)) =>
          ret = Point(call.arg.json.x, call.arg.json.y)
    /\ (Converted("magellan.types.PolyLineUDT") /\ ValidPolyPayload(call.arg.json)) =>
          PolyConverted("PolyLine", 3)
    /\ (Converted("magellan.types.PolygonUDT") /\ ValidPolyPayload(call.arg.json)) =>
          PolyConverted("Polygon", 5)
    /\ \A q \in Unresolvable :
          Converted(q) => (Raised(ret) /\ ret.py \in ResolutionErrors)

\* a PolyLine envelope with two points was converted to a PolyLine
C8_Witness ==
    /\ Converted("magellan.types.PolyLineUDT")
    /\ ValidPolyPayload(call.arg.json)
    /\ Len(call.arg.json.points) = 2
    /\ ret.py = "PolyLine"
    /\ ret.points[2] = Point("3.5", "-2.0")

(* --------------------- properties of the registration ------------------ *)
\* C5: in a single-threaded process where the underlying registration
\* succeeds, any sequence of N >= 1 jsonValue / registerPicklers calls on any
\* mix of shapes performs the registration exactly once, on the first call.
C5_RegisteredOnce ==
    failures = 0 =>
        /\ Len(registered) <= 1
        /\ registered # << >> => registered = <<1>>
        /\ returns >= 1 => registered = <<1>>

\* a second or later call, made on a PolyLine or Polygon, has returned
C5_Witness ==
    /\ failures = 0
    /\ returns >= 2
    /\ pc[1] = "idle"
    /\ self[1] # "Point"
    /\ registered = <<1>>

\* C6: when threads call jsonValue / registerPicklers concurrently, the
\* underlying registration is performed at most once per process under
\* every interleaving.
C6_AtMostOnce == Len(registered) <= 1

JsonReturned(t) == pc[t] = "idle" /\ jret[t].py = "dict"

UDT_module(cls) ==
    CASE cls = "Point"    -> PointUDT_module
      [] cls = "Polygon"  -> PolygonUDT_module
      [] cls = "PolyLine" -> PolyLineUDT_module

\* C7 as stated: jsonValue returns exactly the keys type, pyClass, class and
\* sqlType; type is "udt", pyClass names the shape's codec in magellan.types,
\* class and sqlType are one and the same engine-native name.
C7_ClassIsSqlType ==
    \A t \in Threads : JsonReturned(t) =>
        LET m == jret[t].d
        IN  /\ DOMAIN m = {"type", "pyClass", "class", "sqlType"}
            /\ m.type = "udt"
            /\ m.pyClass = UDT_module(self[t]) \o "." \o self[t] \o "UDT"
            /\ m.sqlType = "magellan." \o self[t]
            /\ m.class = m.sqlType

\* C7 amended: jsonValue returns exactly the keys type, pyClass, class and
\* sqlType; type is "udt", pyClass names the shape's codec in magellan.types,
\* sqlType is "magellan.<Shape>", and class is that same string for PolyLine
\* and Polygon but the codec's scalaUDT name "magellan.PointUDT" for Point.
C7_JsonValueMapping ==
    \A t \in Threads : JsonReturned(t) =>
        LET m == jret[t].d
        IN  /\ DOMAIN m = {"type", "pyClass", "class", "sqlType"}
            /\ m.type = "udt"
            /\ m.pyClass = UDT_module(self[t]) \o "." \o self[t] \o "UDT"
            /\ m.sqlType = "magellan." \o self[t]
            /\ m.class = IF self[t] = "Point" THEN PointUDT_scalaUDT ELSE m.sqlType

\* a Polygon has returned its mapping
C7_Witness ==
    /\ JsonReturned(1)
    /\ self[1] = "Polygon"
    /\ jret[1].d.pyClass = "magellan.types.PolygonUDT"

C10_FlagImpliesRegistered == ClassAttr("Point") = TRUE => registered # << >>

\* a call that raises leaves the flag as it was, unset, and returns nothing
C10_FailStep ==
    \A t \in Threads :
        (pc[t] \in {"lookup", "invoke"} /\ pc'[t] = "idle") =>
            /\ Raised(jret'[t])
            /\ initialized' = initialized
            /\ ClassAttr("Point")' = FALSE

\* while no registration has succeeded, a call enters the registration again
C10_Retry ==
    \A t \in Threads :
        (pc[t] = "guard" /\ registered = << >> /\ pc'[t] # "guard") =>
            /\ pc'[t] = "lookup"
            /\ attempts' = attempts + 1

\* C10: the flag is set only after the registration has completed: a call
\* that fails before or during the invoke raises, yields no mapping and
\* leaves the flag unset, the next call attempts the registration again, and
\* the flag is never true while no registration has succeeded.
C10_FlagSetAfterRegistration ==
    /\ [] C10_FlagImpliesRegistered
    /\ [][C10_FailStep /\ C10_Retry]_vars

\* a call failed and a later call performed the registration
C10_Witness ==
    /\ failures >= 1
    /\ registered # << >>
    /\ registered[1] >= 2
    /\ ClassAttr("Point") = TRUE

(* ------------------------ properties of the lists ---------------------- *)
DefaultBuilt(i) == i \in DOMAIN objs /\ origin[i] # "args"

\* C9: empty defaults are per-instance: two instances built by no-argument
\* construction or by sqlType() hold separate containers, and appending to
\* the lists of one leaves every other such instance, and every later one,
\* with empty indices and points.
C9_DefaultsPerInstance ==
    /\ \A i, j \in DOMAIN objs :
          (i # j /\ DefaultBuilt(i) /\ DefaultBuilt(j)) =>
              /\ objs[i].indices # objs[j].indices
              /\ objs[i].points # objs[j].points
    /\ \A i \in DOMAIN objs :
          (DefaultBuilt(i) /\ i \notin touched) =>
              /\ heap[objs[i].indices] = << >>
              /\ heap[objs[i].points] = << >>

====
